---- MODULE Spec2Model ----
(***************************************************************************)
(* A model of qa.py: the dispatcher (main), the file processor             *)
(* (process_file), the output writer (write_data) and the processed-files  *)
(* ledger, with the worker threads of the ThreadPoolExecutor interleaved   *)
(* at every statement that touches the lock, the output artifact or the    *)
(* ledger file.                                                            *)
(*                                                                         *)
(* A file name is a sequence of characters whose last element stands for   *)
(* the extension (".txt", ".md", ...); "LF" is the line feed, which POSIX  *)
(* allows in a file name.  A text is known by its number of tokens.        *)
(***************************************************************************)
EXTENDS Naturals, Sequences, FiniteSets

(* ----------------------------- bounds ---------------------------------- *)

\* number of successive invocations of main() that are explored
MaxRuns == 2

\* number of failures the environment injects over a behaviour (read errors,
\* generator failures, I/O errors on open)
MaxFaults == 1

(* ------------------------ program constants ---------------------------- *)

DATA_CHUNK_SIZE == 2048
max_workers == 4
supported_types == {".pdf", ".txt", ".md"}

(* --------------------------- the directory ----------------------------- *)

\* os.listdir(args.data_directory): the same directory in every run
Directory == {"F1", "F2", "F4"}

\* the base name of each directory entry
Name(f) ==
    CASE f = "F1" -> <<"a", ".txt">>
      [] f = "F2" -> <<"b", "LF", "c", ".md">>
      [] f = "F3" -> <<"e", ".pdf">>
      [] f = "F4" -> <<"d", ".TXT">>
      [] OTHER    -> <<"g", ".csv">>

\* the number of tokens of the text each file holds (F3: a PDF whose pages
\* yield no text)
Tokens(f) ==
    CASE f = "F1" -> DATA_CHUNK_SIZE + 1
      [] f = "F2" -> 5
      [] f = "F3" -> 0
      [] OTHER    -> 3

\* paths process_file may be called with directly (by a test or a caller
\* other than main): the directory's entries, a PDF without text and a file
\* of an unsupported type
Paths == Directory \cup {"F3", "F5"}

(* --------------------------- pure functions ---------------------------- *)

Extensions == {".pdf", ".txt", ".md", ".TXT", ".csv"}

\* os.path.splitext(name)[1]
splitext(name) ==
    IF Len(name) > 1 /\ name[Len(name)] \in Extensions
    THEN name[Len(name)]
    ELSE ""

\* str.lower() on an extension
lower(ext) == IF ext = ".TXT" THEN ".txt" ELSE ext

\* the characters str.splitlines() breaks a line at: the line feed stands for
\* all of them (\n, \r, \v, \f, \x1c-\x1e, \x85, U+2028, U+2029)
LineBreaks == {"LF"}

RECURSIVE SplitFrom(_, _, _)
SplitFrom(s, cur, acc) ==
    IF s = <<>>
    THEN IF cur = <<>> THEN acc ELSE Append(acc, cur)
    ELSE IF Head(s) \in LineBreaks
         THEN SplitFrom(Tail(s), <<>>, Append(acc, cur))
         ELSE SplitFrom(Tail(s), Append(cur, Head(s)), acc)

\* str.splitlines(): the lines of s, without their line breaks
splitlines(s) == SplitFrom(s, <<>>, <<>>)

Range(s) == {s[i] : i \in 1..Len(s)}

IsPrefix(s, t) == Len(s) <= Len(t) /\ SubSeq(t, 1, Len(s)) = s

Suffix(s, n) == SubSeq(s, n + 1, Len(s))

Min(a, b) == IF a <= b THEN a ELSE b

\* a text (by its token count) or None
None == [null |-> TRUE, tokens |-> 0]
Text(n) == [null |-> FALSE, tokens |-> n]

\* extract_text_from_pdf: the pages' texts joined, None on any exception
extract_text_from_pdf(path, io) ==
    IF io = "ok" THEN Text(Tokens(path)) ELSE None

\* extract_text: by extension (lower-cased); None for an unsupported
\* extension or a read error
extract_text(path, io) ==
    LET ext == lower(splitext(Name(path)))
    IN  IF ext = ".pdf" THEN extract_text_from_pdf(path, io)
        ELSE IF ext \in {".txt", ".md"}
             THEN IF io = "ok" THEN Text(Tokens(path)) ELSE None
             ELSE None

\* split_text_into_chunks: windows of tokens_per_chunk tokens from
\* range(0, len(tokens), tokens_per_chunk); each chunk by its token count
split_text_into_chunks(text, tokens_per_chunk) ==
    LET n == text.tokens
        k == (n + tokens_per_chunk - 1) \div tokens_per_chunk
    IN  [j \in 1..k |-> Min(tokens_per_chunk, n - (j - 1) * tokens_per_chunk)]

\* a test that lets None through
TruthyAlways(text) == TRUE

\* "if text:" at line 113: None and the empty string are both falsy
Truthy(text) == ~text.null /\ text.tokens > 0

(* ------------------- the code's decisions, one each -------------------- *)

\* line 109: os.path.basename(file_path) in processed_files
InLedgerSnapshot(path, snapshot) == Name(path) \in snapshot

\* lines 145-148: the ledger snapshot, empty under --force
LoadLedger(frc, contents) ==
    IF ~frc THEN Range(splitlines(contents)) ELSE {}

\* line 151 without its ledger test
CandidateIgnoringLedger(f, frc, snapshot) ==
    splitext(Name(f)) \in supported_types

\* line 151: the entries of the directory that are submitted (the extension
\* is compared as it is, not lower-cased)
Candidate(f, frc, snapshot) ==
    /\ splitext(Name(f)) \in supported_types
    /\ (frc \/ Name(f) \notin snapshot)

\* threading.Lock: acquire() proceeds only on a free lock
NoOne == "-"
\* a lock that excludes no one
LockNeverHeld(holder) == TRUE

LockFree(holder) == holder = NoOne

\* open(..., 'w'): the file is truncated
OpenTruncating(contents) == <<>>

\* open(..., 'a'): the file keeps what it holds
OpenForAppend(contents) == contents

\* the header written before every record
NeedHeaderAlways(contents) == TRUE

\* line 97: file.tell() == 0 on a file just opened for append
NeedHeader(contents) == Len(contents) = 0

\* the pieces one write call puts into the output artifact
Header == [k |-> "hdr", f |-> "", i |-> 0]
Row(f, i) == [k |-> "row", f |-> f, i |-> i]
Obj(f, i) == [k |-> "obj", f |-> f, i |-> i]
Newline == [k |-> "nl", f |-> "", i |-> 0]

(* ------------------------------ state ---------------------------------- *)

VARIABLES
    mainpc,           \* main: "idle", "running" (in as_completed), "returned";
                      \* "harness" when process_file is called directly
    run,              \* invocations of main started so far
    force,            \* args.force of the current run
    file_format,      \* 'csv' or 'jsonl' (lines 139, 144)
    processed_files,  \* the ledger snapshot (a set of lines)
    files,            \* the submitted files (the keys of futures)
    pc,               \* each task's position in process_file
    idx,              \* each task's position in "for chunk in chunks" (1-based)
    text,             \* each task's extracted text
    chunks,           \* each task's chunks
    write_lock,       \* the holder of write_lock, or NoOne
    output,           \* the output artifact: the pieces written, in order
    ledger,           \* processed_files.txt: its characters
    result,           \* each future's outcome: "none", "True", "False", "raised"
    collected,        \* the futures as_completed has yielded
    progress,         \* pbar.n
    \* history, read by the properties only
    extracted,        \* calls of extract_text per file in this run
    attempted,        \* per file, the chunks passed to generate_qa_data, in order
    genOk,            \* per file, the chunks whose generation returned a record
    wfail,            \* per file, the chunks whose write_data caught an I/O error
    marked,           \* the files whose ledger line was written in this run
    prevMarked,       \* the files whose ledger line was written in an earlier run
    out0,             \* Len(output) when the run started
    led0,             \* Len(ledger) when the run started
    faults            \* failures injected so far

vars == <<mainpc, run, force, file_format, processed_files, files, pc, idx, text, chunks,
          write_lock, output, ledger, result, collected, progress,
          extracted, attempted, genOk, wfail, marked, prevMarked, out0, led0, faults>>

taskVars == <<pc, idx, text, chunks, result>>
mainVars == <<mainpc, run, force, file_format, processed_files, files, collected, progress>>
histVars == <<extracted, attempted, genOk, wfail, marked, prevMarked, out0, led0>>

Formats == {"csv", "jsonl"}

\* the tasks a pool thread is running
Running == {f \in Paths : pc[f] \notin {"none", "queued", "done"}}

Fresh(S) == [f \in Paths |-> IF f \in S THEN "queued" ELSE "none"]

(* ------------------------------- main ---------------------------------- *)

Init ==
    /\ mainpc = "idle"
    /\ run = 0
    /\ force = FALSE
    /\ file_format \in Formats
    /\ processed_files = {}
    /\ files = {}
    /\ pc = Fresh({})
    /\ idx = [f \in Paths |-> 0]
    /\ text = [f \in Paths |-> None]
    /\ chunks = [f \in Paths |-> <<>>]
    /\ write_lock = NoOne
    /\ output = <<>>
    /\ ledger = <<>>
    /\ result = [f \in Paths |-> "none"]
    /\ collected = {}
    /\ progress = 0
    /\ extracted = [f \in Paths |-> 0]
    /\ attempted = [f \in Paths |-> <<>>]
    /\ genOk = [f \in Paths |-> {}]
    /\ wfail = [f \in Paths |-> {}]
    /\ marked = {}
    /\ prevMarked = {}
    /\ out0 = 0
    /\ led0 = 0
    /\ faults = 0

\* an outcome the environment may give: a failure only within the budget
Outcomes == IF faults < MaxFaults THEN {"ok", "error"} ELSE {"ok"}
Spend(io) == faults' = IF io = "ok" THEN faults ELSE faults + 1

\* main, lines 135-155: parse the arguments, load the ledger snapshot, list the
\* directory and submit one task per candidate.  The snapshot and the listing
\* are read before the first submit and never again, so the tasks that start
\* while later ones are still being submitted see nothing different.
main_start(frc) ==
    /\ mainpc \in {"idle", "returned"}
    /\ run < MaxRuns
    /\ LET snapshot == LoadLedger(frc, ledger)
           submitted == {f \in Directory : Candidate(f, frc, snapshot)}
       IN  /\ processed_files' = snapshot
           /\ files' = submitted
           /\ pc' = Fresh(submitted)
    /\ mainpc' = "running"
    /\ run' = run + 1
    /\ force' = frc
    /\ idx' = [f \in Paths |-> 0]
    /\ text' = [f \in Paths |-> None]
    /\ chunks' = [f \in Paths |-> <<>>]
    /\ result' = [f \in Paths |-> "none"]
    /\ collected' = {}
    /\ progress' = 0
    /\ extracted' = [f \in Paths |-> 0]
    /\ attempted' = [f \in Paths |-> <<>>]
    /\ genOk' = [f \in Paths |-> {}]
    /\ wfail' = [f \in Paths |-> {}]
    /\ prevMarked' = prevMarked \cup marked
    /\ marked' = {}
    /\ out0' = Len(output)
    /\ led0' = Len(ledger)
    /\ UNCHANGED <<file_format, write_lock, output, ledger, faults>>

\* a loop that stops yielding at the first future that raised
as_completed_stops_at_raise(f) ==
    /\ mainpc = "running"
    /\ f \in files \ collected
    /\ pc[f] = "done"
    /\ \A g \in collected : result[g] # "raised"
    /\ collected' = collected \cup {f}
    /\ progress' = IF result[f] = "True" THEN progress + 1 ELSE progress
    /\ UNCHANGED <<mainpc, run, force, file_format, processed_files, files>>
    /\ UNCHANGED <<taskVars, write_lock, output, ledger, histVars, faults>>

\* a loop that ticks for every future it is given
as_completed_ticks_always(f) ==
    /\ mainpc = "running"
    /\ f \in files \ collected
    /\ pc[f] = "done"
    /\ collected' = collected \cup {f}
    /\ progress' = progress + 1
    /\ UNCHANGED <<mainpc, run, force, file_format, processed_files, files>>
    /\ UNCHANGED <<taskVars, write_lock, output, ledger, histVars, faults>>

\* lines 158-163: as_completed yields a finished future; its result ticks the
\* progress bar when true, its exception is logged
as_completed_next(f) ==
    /\ mainpc = "running"
    /\ f \in files \ collected
    /\ pc[f] = "done"
    /\ collected' = collected \cup {f}
    /\ progress' = IF result[f] = "True" THEN progress + 1 ELSE progress
    /\ UNCHANGED <<mainpc, run, force, file_format, processed_files, files>>
    /\ UNCHANGED <<taskVars, write_lock, output, ledger, histVars, faults>>

\* a dispatcher that does not wait for its futures
main_return_early ==
    /\ mainpc = "running"
    /\ mainpc' = "returned"
    /\ UNCHANGED <<run, force, file_format, processed_files, files, collected, progress>>
    /\ UNCHANGED <<taskVars, write_lock, output, ledger, histVars, faults>>

\* lines 158, 154: the loop ends when every future was yielded, and the
\* executor's exit waits for its threads
main_return ==
    /\ mainpc = "running"
    /\ collected = files
    /\ mainpc' = "returned"
    /\ UNCHANGED <<run, force, file_format, processed_files, files, collected, progress>>
    /\ UNCHANGED <<taskVars, write_lock, output, ledger, histVars, faults>>

(* --------------------------- process_file ------------------------------ *)

\* a mark only for a file that produced a record
LedgerLineIfRecords(path) ==
    IF genOk[path] = {} THEN <<>> ELSE Name(path) \o <<"LF">>

\* line 123: what one mark writes
LedgerLine(path) == Name(path) \o <<"LF">>

\* a loop that is left after its first turn
LoopBreaks(f, i) == "m_wait"

\* a loop that is left when a chunk gave no record
LoopBreaksOnFailure(f, i) ==
    IF i < Len(chunks[f]) /\ i \in genOk[f] THEN "gen" ELSE "m_wait"

\* where the loop of line 115 goes once chunk i is dealt with: to the next
\* chunk, or past the loop to the lock of line 121
LoopNext(f, i) == IF i < Len(chunks[f]) THEN "gen" ELSE "m_wait"

\* a pool thread takes the task and runs lines 109-110
process_file_enter(f) ==
    /\ pc[f] = "queued"
    /\ Cardinality(Running) < max_workers
    /\ IF InLedgerSnapshot(f, processed_files)
       THEN /\ pc' = [pc EXCEPT ![f] = "done"]
            /\ result' = [result EXCEPT ![f] = "False"]
       ELSE /\ pc' = [pc EXCEPT ![f] = "extract"]
            /\ UNCHANGED result
    /\ UNCHANGED <<idx, text, chunks, mainVars, write_lock, output, ledger, histVars, faults>>

\* an extraction that is tried again after a first failure
process_file_extract_retries(f) ==
    /\ pc[f] = "extract"
    /\ \E io \in Outcomes :
         /\ Spend(io)
         /\ LET t == extract_text(f, io)
                cs == split_text_into_chunks(t, DATA_CHUNK_SIZE)
            IN  /\ text' = [text EXCEPT ![f] = t]
                /\ IF Truthy(t)
                   THEN /\ chunks' = [chunks EXCEPT ![f] = cs]
                        /\ idx' = [idx EXCEPT ![f] = IF Len(cs) > 0 THEN 1 ELSE 0]
                        /\ pc' = [pc EXCEPT ![f] = IF Len(cs) > 0 THEN "gen" ELSE "m_wait"]
                        /\ UNCHANGED result
                   ELSE IF extracted[f] = 0
                        THEN UNCHANGED <<pc, result, idx, chunks>>
                        ELSE /\ pc' = [pc EXCEPT ![f] = "done"]
                             /\ result' = [result EXCEPT ![f] = "False"]
                             /\ UNCHANGED <<idx, chunks>>
    /\ extracted' = [extracted EXCEPT ![f] = @ + 1]
    /\ UNCHANGED <<mainVars, write_lock, output, ledger>>
    /\ UNCHANGED <<attempted, genOk, wfail, marked, prevMarked, out0, led0>>

\* lines 112-114 and 125: extract the text; a falsy text returns False, any
\* other is split into chunks and the loop begins
process_file_extract(f) ==
    /\ pc[f] = "extract"
    /\ \E io \in Outcomes :
         /\ Spend(io)
         /\ LET t == extract_text(f, io)
                cs == split_text_into_chunks(t, DATA_CHUNK_SIZE)
            IN  /\ text' = [text EXCEPT ![f] = t]
                /\ IF Truthy(t)
                      THEN /\ chunks' = [chunks EXCEPT ![f] = cs]
                        /\ idx' = [idx EXCEPT ![f] = IF Len(cs) > 0 THEN 1 ELSE 0]
                        /\ pc' = [pc EXCEPT ![f] = IF Len(cs) > 0 THEN "gen" ELSE "m_wait"]
                        /\ UNCHANGED result
                   ELSE /\ pc' = [pc EXCEPT ![f] = "done"]
                        /\ result' = [result EXCEPT ![f] = "False"]
                        /\ UNCHANGED <<idx, chunks>>
    /\ extracted' = [extracted EXCEPT ![f] = @ + 1]
    /\ UNCHANGED <<mainVars, write_lock, output, ledger>>
    /\ UNCHANGED <<attempted, genOk, wfail, marked, prevMarked, out0, led0>>

\* lines 116-117: generate_qa_data returns a record, or None after catching
\* the backend's exception
generate_qa_data(f) ==
    /\ pc[f] = "gen"
    /\ \E io \in Outcomes :
         /\ Spend(io)
         /\ IF io = "ok"
            THEN /\ pc' = [pc EXCEPT ![f] = "w_wait"]
                 /\ genOk' = [genOk EXCEPT ![f] = @ \cup {idx[f]}]
                 /\ UNCHANGED idx
            ELSE /\ pc' = [pc EXCEPT ![f] = LoopNext(f, idx[f])]
                 /\ idx' = [idx EXCEPT ![f] = IF idx[f] < Len(chunks[f]) THEN @ + 1 ELSE @]
                 /\ UNCHANGED genOk
    /\ attempted' = [attempted EXCEPT ![f] = Append(@, idx[f])]
    /\ UNCHANGED <<text, chunks, result, mainVars, write_lock, output, ledger>>
    /\ UNCHANGED <<extracted, wfail, marked, prevMarked, out0, led0>>

\* write_data called outside the with-block
write_without_lock(f) ==
    /\ pc[f] = "w_wait"
    /\ pc' = [pc EXCEPT ![f] = "w_open"]
    /\ UNCHANGED <<idx, text, chunks, result, mainVars, write_lock, output, ledger, histVars, faults>>

\* line 119: with write_lock
write_acquire(f) ==
    /\ pc[f] = "w_wait"
    /\ LockFree(write_lock)
    /\ write_lock' = f
    /\ pc' = [pc EXCEPT ![f] = "w_open"]
    /\ UNCHANGED <<idx, text, chunks, result, mainVars, output, ledger, histVars, faults>>

\* the end of "with write_lock" at line 120, and the loop's next turn
ChunkDone(f) ==
    /\ write_lock' = IF write_lock = f THEN NoOne ELSE write_lock
    /\ pc' = [pc EXCEPT ![f] = LoopNext(f, idx[f])]
    /\ idx' = [idx EXCEPT ![f] = IF idx[f] < Len(chunks[f]) THEN @ + 1 ELSE @]

\* a lock taken with acquire() and released only after the write: the caught
\* error of the open leaves it held
write_open_keeps_lock(f) ==
    /\ pc[f] = "w_open"
    /\ \E io \in Outcomes :
         /\ Spend(io)
         /\ IF io = "ok"
            THEN /\ output' = OpenForAppend(output)
                 /\ pc' = [pc EXCEPT ![f] =
                             IF file_format = "csv" /\ NeedHeader(OpenForAppend(output))
                             THEN "w_hdr" ELSE "w_row"]
                 /\ UNCHANGED <<idx, write_lock, wfail>>
            ELSE /\ pc' = [pc EXCEPT ![f] = LoopNext(f, idx[f])]
                 /\ idx' = [idx EXCEPT ![f] = IF idx[f] < Len(chunks[f]) THEN @ + 1 ELSE @]
                 /\ wfail' = [wfail EXCEPT ![f] = @ \cup {idx[f]}]
                 /\ UNCHANGED <<output, write_lock>>
    /\ UNCHANGED <<text, chunks, result, mainVars, ledger>>
    /\ UNCHANGED <<extracted, attempted, genOk, marked, prevMarked, out0, led0>>

\* write_data, lines 94-97 and 104-105: open the artifact for append; an I/O
\* error is caught and logged, and the record is lost
write_open(f) ==
    /\ pc[f] = "w_open"
    /\ \E io \in Outcomes :
         /\ Spend(io)
         /\ IF io = "ok"
            THEN /\ output' = OpenForAppend(output)
                 /\ pc' = [pc EXCEPT ![f] =
                             IF file_format = "csv" /\ NeedHeader(OpenForAppend(output))
                             THEN "w_hdr" ELSE "w_row"]
                 /\ UNCHANGED <<idx, write_lock, wfail>>
            ELSE /\ ChunkDone(f)
                 /\ wfail' = [wfail EXCEPT ![f] = @ \cup {idx[f]}]
                 /\ UNCHANGED output
    /\ UNCHANGED <<text, chunks, result, mainVars, ledger>>
    /\ UNCHANGED <<extracted, attempted, genOk, marked, prevMarked, out0, led0>>

\* line 98: writer.writeheader()
write_header(f) ==
    /\ pc[f] = "w_hdr"
    /\ output' = Append(output, Header)
    /\ pc' = [pc EXCEPT ![f] = "w_row"]
    /\ UNCHANGED <<idx, text, chunks, result, mainVars, write_lock, ledger, histVars, faults>>

\* line 99: writer.writerow(data), the file closed and the lock released; or
\* line 101: json.dump(data, file)
write_row(f) ==
    /\ pc[f] = "w_row"
    /\ IF file_format = "csv"
       THEN /\ output' = Append(output, Row(f, idx[f]))
            /\ ChunkDone(f)
       ELSE /\ output' = Append(output, Obj(f, idx[f]))
            /\ pc' = [pc EXCEPT ![f] = "w_nl"]
            /\ UNCHANGED <<idx, write_lock>>
    /\ UNCHANGED <<text, chunks, result, mainVars, ledger, histVars, faults>>

\* line 102: file.write('\n'), the file closed and the lock released
write_newline(f) ==
    /\ pc[f] = "w_nl"
    /\ output' = Append(output, Newline)
    /\ ChunkDone(f)
    /\ UNCHANGED <<text, chunks, result, mainVars, ledger, histVars, faults>>

\* a mark that does not wait for the end of the loop
mark_acquire_early(f) ==
    /\ pc[f] \in {"m_wait", "gen"}
    /\ LockFree(write_lock)
    /\ write_lock' = f
    /\ pc' = [pc EXCEPT ![f] = "m_open"]
    /\ UNCHANGED <<idx, text, chunks, result, mainVars, output, ledger, histVars, faults>>

\* line 121: with write_lock
mark_acquire(f) ==
    /\ pc[f] = "m_wait"
    /\ LockFree(write_lock)
    /\ write_lock' = f
    /\ pc' = [pc EXCEPT ![f] = "m_open"]
    /\ UNCHANGED <<idx, text, chunks, result, mainVars, output, ledger, histVars, faults>>

\* a lock taken with acquire() and released only after the write: the error
\* of the open leaves it held
mark_open_keeps_lock(f) ==
    /\ pc[f] = "m_open"
    /\ \E io \in Outcomes :
         /\ Spend(io)
         /\ IF io = "ok"
            THEN /\ ledger' = OpenForAppend(ledger)
                 /\ pc' = [pc EXCEPT ![f] = "m_write"]
                 /\ UNCHANGED <<write_lock, result>>
            ELSE /\ pc' = [pc EXCEPT ![f] = "done"]
                 /\ result' = [result EXCEPT ![f] = "raised"]
                 /\ UNCHANGED <<write_lock, ledger>>
    /\ UNCHANGED <<idx, text, chunks, mainVars, output, histVars>>

\* line 122: open the ledger for append; an I/O error is not caught here: it
\* leaves the with-block (the lock is released) and the task raises
mark_open(f) ==
    /\ pc[f] = "m_open"
    /\ \E io \in Outcomes :
         /\ Spend(io)
         /\ IF io = "ok"
            THEN /\ ledger' = OpenForAppend(ledger)
                 /\ pc' = [pc EXCEPT ![f] = "m_write"]
                 /\ UNCHANGED <<write_lock, result>>
            ELSE /\ write_lock' = IF write_lock = f THEN NoOne ELSE write_lock
                 /\ pc' = [pc EXCEPT ![f] = "done"]
                 /\ result' = [result EXCEPT ![f] = "raised"]
                 /\ UNCHANGED ledger
    /\ UNCHANGED <<idx, text, chunks, mainVars, output, histVars>>

\* lines 123-124: write the base name and a line feed, close, release the
\* lock, return True
mark_write(f) ==
    /\ pc[f] = "m_write"
    /\ ledger' = ledger \o LedgerLine(f)
    /\ write_lock' = IF write_lock = f THEN NoOne ELSE write_lock
    /\ pc' = [pc EXCEPT ![f] = "done"]
    /\ result' = [result EXCEPT ![f] = "True"]
    /\ marked' = marked \cup {f}
    /\ UNCHANGED <<idx, text, chunks, mainVars, output, faults>>
    /\ UNCHANGED <<extracted, attempted, genOk, wfail, prevMarked, out0, led0>>

process_file(f) ==
    \/ process_file_enter(f)
    \/ process_file_extract(f)
    \/ generate_qa_data(f)
    \/ write_acquire(f)
    \/ write_open(f)
    \/ write_header(f)
    \/ write_row(f)
    \/ write_newline(f)
    \/ mark_acquire(f)
    \/ mark_open(f)
    \/ mark_write(f)

main ==
    \/ \E frc \in BOOLEAN : main_start(frc)
    \/ \E f \in Directory : as_completed_next(f)
    \/ main_return

Next == main \/ \E f \in Paths : process_file(f)

Spec == Init /\ [][Next]_vars

\* a step of f's task that waits for nothing but its thread, the lock and the
\* file system: every step but the two calls of lines 112 and 116
ThreadStep(f) ==
    \/ process_file_enter(f)
    \/ write_acquire(f)
    \/ write_open(f)
    \/ write_header(f)
    \/ write_row(f)
    \/ write_newline(f)
    \/ mark_acquire(f)
    \/ mark_open(f)
    \/ mark_write(f)

\* the scheduling of a run: the pool's threads and the main thread each get to
\* run (lines 154-158)
Scheduling ==
    /\ \A f \in Paths : WF_vars(ThreadStep(f))
    /\ WF_vars(\E f \in Directory : as_completed_next(f))
    /\ WF_vars(main_return)

\* every call of extract_text (line 112) and of generate_qa_data (line 116)
\* returns, with either outcome
BackendReturns ==
    \A f \in Paths :
        WF_vars(process_file_extract(f)) /\ WF_vars(generate_qa_data(f))

Fairness == Scheduling /\ BackendReturns

\* a run whose threads are scheduled fairly and whose calls return
FairSpec == Spec /\ Fairness

\* a run whose threads are scheduled fairly, and whose calls of lines 112 and
\* 116 may never return
SchedSpec == Spec /\ Scheduling

(* ------------------- process_file called directly ---------------------- *)

\* the snapshots a caller may pass: any set of base names
Snapshots == SUBSET {Name(f) : f \in {"F1", "F2", "F3"}}

\* process_file(file_path, file_format, output_path, processed_files,
\* processed_files_list) called on one path with any snapshot, outside main,
\* on an empty output directory
InitUnit ==
    /\ mainpc = "harness"
    /\ run = 0
    /\ force = FALSE
    /\ file_format \in Formats
    /\ processed_files \in Snapshots
    /\ \E f \in Paths : files = {f}
    /\ pc = Fresh(files)
    /\ idx = [f \in Paths |-> 0]
    /\ text = [f \in Paths |-> None]
    /\ chunks = [f \in Paths |-> <<>>]
    /\ write_lock = NoOne
    /\ output = <<>>
    /\ ledger = <<>>
    /\ result = [f \in Paths |-> "none"]
    /\ collected = {}
    /\ progress = 0
    /\ extracted = [f \in Paths |-> 0]
    /\ attempted = [f \in Paths |-> <<>>]
    /\ genOk = [f \in Paths |-> {}]
    /\ wfail = [f \in Paths |-> {}]
    /\ marked = {}
    /\ prevMarked = {}
    /\ out0 = 0
    /\ led0 = 0
    /\ faults = 0

\* the runs of main and the direct calls of process_file
SpecUnit == (Init \/ InitUnit) /\ [][Next]_vars

(* ------------------------- reading the files --------------------------- *)

\* the positions of the output artifact written in the current run (or call)
NewPositions == {i \in 1..Len(output) : i > out0}

\* the chunks of f whose record (row or object) the current run appended
RecordsOf(f) == {output[i].i : i \in {j \in NewPositions : output[j].f = f}}

\* how many record pieces of f's chunk c the current run appended
CopiesOf(f, c) ==
    Cardinality({j \in NewPositions : output[j].f = f /\ output[j].i = c})

\* the lines the ledger gained in the current run, as a later run reads them
NewLines == splitlines(Suffix(ledger, led0))

\* the line a mark of f is to add to the ledger: the base name, a line feed
LineOf(f) == Name(f) \o <<"LF">>

\* the task is inside write_data, between its open and its close
InWrite(f) == pc[f] \in {"w_open", "w_hdr", "w_row", "w_nl"}

(* ------------------------------- C1 ------------------------------------ *)

\* C1: without --force, a file whose base name is in the ledger snapshot is
\* never given to extract_text: main does not submit it, and process_file
\* called on it returns False with no extraction, no generation, no record
\* appended and no ledger line appended.
C1_SnapshotFileNeverExtracted ==
    \A f \in Paths :
        (~force /\ Name(f) \in processed_files) =>
            /\ (mainpc # "harness" => f \notin files)
            /\ extracted[f] = 0
            /\ pc[f] \in {"none", "queued", "done"}
            /\ (pc[f] = "done" => result[f] = "False")
            /\ attempted[f] = <<>>
            /\ RecordsOf(f) = {}
            /\ f \notin marked
            /\ (f \in files /\ mainpc = "harness" => output = <<>> /\ ledger = <<>>)

\* process_file was called on a path of the snapshot and has returned False
C1_Witness ==
    \E f \in Paths :
        /\ mainpc = "harness"
        /\ f \in files
        /\ Name(f) \in processed_files
        /\ pc[f] = "done"
        /\ result[f] = "False"
        /\ extracted[f] = 0

(* ------------------------------- C2 ------------------------------------ *)

\* the directory entries main can ever submit
Supported == {f \in Directory : splitext(Name(f)) \in supported_types}

\* C2: idempotent resumption: a file whose base name an earlier run appended
\* to the ledger is, in a later run without --force, not submitted, gets no
\* record appended and no ledger line appended; and when an earlier run marked
\* every supported file, the later run submits nothing and appends nothing.
C2_IdempotentResumption ==
    (mainpc \in {"running", "returned"} /\ ~force) =>
        /\ \A f \in prevMarked :
              f \notin files /\ RecordsOf(f) = {} /\ f \notin marked
        /\ (Supported \subseteq prevMarked =>
              files = {} /\ NewPositions = {} /\ Len(ledger) = led0)

\* the same, for the files whose base name holds no line break: this holds
C2_ResumptionOfPlainNames ==
    (mainpc \in {"running", "returned"} /\ ~force) =>
        \A f \in prevMarked :
            Range(Name(f)) \cap LineBreaks = {} =>
                f \notin files /\ RecordsOf(f) = {} /\ f \notin marked

(* ------------------------------- C3 ------------------------------------ *)

RECURSIVE ContainsAt(_, _, _)
ContainsAt(s, t, n) ==
    IF n + Len(t) > Len(s) THEN FALSE
    ELSE IF SubSeq(s, n + 1, n + Len(t)) = t THEN TRUE
    ELSE ContainsAt(s, t, n + 1)

\* t occurs in s at or after position n + 1
Contains(s, t, n) == ContainsAt(s, t, n)

\* under --force every supported file is submitted whatever the ledger holds,
\* and a task that returned True has added, after what the files held, one
\* record for each generated chunk whose write met no I/O error and its
\* ledger line
C3_ForceAppends ==
    (force /\ mainpc \in {"running", "returned"}) =>
        /\ files = Supported
        /\ Len(output) >= out0 /\ Len(ledger) >= led0
        /\ \A f \in files :
              (pc[f] = "done" /\ result[f] = "True") =>
                  /\ RecordsOf(f) = genOk[f] \ wfail[f]
                  /\ \A c \in RecordsOf(f) : CopiesOf(f, c) = 1
                  /\ Contains(ledger, LineOf(f), led0)

\* C3: the output artifact and the ledger are append-only over any sequence
\* of runs, with or without --force: every step keeps the old contents as a
\* prefix of the new; so a --force run over a ledgered file reprocesses it and
\* appends further records and a further ledger line, replacing nothing.
C3_AppendOnly ==
    /\ [][IsPrefix(output, output') /\ IsPrefix(ledger, ledger')]_vars
    /\ []C3_ForceAppends

\* a --force run has reprocessed F1, which an earlier run had ledgered: the
\* artifact holds the earlier record of its first chunk and a second one
C3_Witness ==
    /\ force /\ mainpc = "returned"
    /\ "F1" \in prevMarked /\ "F1" \in marked
    /\ 1 \in RecordsOf("F1")
    /\ \E j \in 1..Len(output) : j <= out0 /\ output[j].f = "F1" /\ output[j].i = 1
    /\ Contains(ledger, LineOf("F1"), 0)
    /\ Contains(ledger, LineOf("F1"), led0)

(* ------------------------------- C4 ------------------------------------ *)

\* the chunks of f the loop of line 115 is through with
Finished(f) ==
    IF pc[f] \in {"m_wait", "m_open", "m_write", "done"}
    THEN 1..Len(chunks[f])
    ELSE 1..(idx[f] - 1)

\* the chunks of f whose record the artifact must hold by now
Due(f) ==
    ((Finished(f) \cap genOk[f]) \ wfail[f])
        \cup (IF pc[f] = "w_nl" THEN {idx[f]} ELSE {})

\* every piece belongs to a whole record, but for the one record a writer
\* holding the lock is in the middle of
WholeRecords ==
    \A i \in 1..Len(output) :
        IF file_format = "csv"
        THEN output[i].k \in {"hdr", "row"}
        ELSE /\ output[i].k \in {"obj", "nl"}
             /\ output[i].k = "nl" => i > 1 /\ output[i - 1].k = "obj"
             /\ output[i].k = "obj" =>
                  IF i < Len(output)
                  THEN output[i + 1].k = "nl"
                  ELSE \E f \in files :
                          /\ pc[f] = "w_nl" /\ write_lock = f
                          /\ output[i] = Obj(f, idx[f])

\* C4: concurrent writers neither lose, duplicate nor interleave records: in
\* every interleaving the artifact holds whole records only, exactly one for
\* each generation result that was not None and whose write met no I/O error.
C4_NoLostDuplicatedOrSplitRecords ==
    /\ WholeRecords
    /\ \A f \in files :
          /\ RecordsOf(f) = Due(f)
          /\ \A c \in RecordsOf(f) : CopiesOf(f, c) = 1

\* two workers have appended 2 and 1 records with no failure, F2's record
\* between F1's two
C4_Witness ==
    /\ file_format = "jsonl" /\ run = 1 /\ mainpc = "returned"
    /\ files = {"F1", "F2"} /\ faults = 0
    /\ genOk["F1"] = {1, 2} /\ genOk["F2"] = {1}
    /\ Len(output) = 6
    /\ output[3] = Obj("F2", 1)

(* ------------------------------- C5 ------------------------------------ *)

\* C5: in csv encoding the header is written exactly when the artifact is
\* empty as it is opened under the lock: over any interleaving and any
\* sequence of runs from an empty artifact, the header occurs at most once,
\* and the first row of a non-empty artifact is the header.
C5_HeaderOnceAndFirst ==
    file_format = "csv" =>
        \A i \in 1..Len(output) : (output[i].k = "hdr") <=> (i = 1)

\* a second run has appended rows to an artifact that held the header and rows
C5_Witness ==
    /\ file_format = "csv" /\ run = 2 /\ mainpc = "returned"
    /\ out0 >= 3 /\ Len(output) >= out0 + 2
    /\ faults = 0

(* ------------------------------- C6 ------------------------------------ *)

\* C6: ledger marks are neither interleaved nor lost: after k successful
\* marks the ledger has gained exactly k whole lines, each the base name of
\* one marked file.
C6_OneLinePerMark ==
    /\ Len(NewLines) = Cardinality(marked)
    /\ Range(NewLines) = {Name(f) : f \in marked}

\* what the marks of the files of S write, in each order
RECURSIVE MarkWrites(_)
MarkWrites(S) ==
    IF S = {} THEN {<<>>}
    ELSE UNION {{w \o LineOf(f) : w \in MarkWrites(S \ {f})} : f \in S}

\* the characters the marks wrote are whole and in one piece each: the
\* ledger has gained the marked files' writes, one after the other
C6_MarksWrittenWhole == Suffix(ledger, led0) \in MarkWrites(marked)

(* ------------------------------- C7 ------------------------------------ *)

\* the loop of line 115 has passed every chunk of f to the generator, once
\* and in order
WalkedToCompletion(f) ==
    /\ extracted[f] = 1
    /\ Truthy(text[f])
    /\ chunks[f] = split_text_into_chunks(text[f], DATA_CHUNK_SIZE)
    /\ attempted[f] = [j \in 1..Len(chunks[f]) |-> j]

\* C7, as claimed: an identifier is appended to the ledger, and process_file
\* returns True, only after at least one chunk of the file produced a record
\* that was written to the artifact and the whole file was walked.
C7_MarkedOnlyAfterARecord ==
    \A f \in files :
        (f \in marked \/ result[f] = "True") =>
            RecordsOf(f) # {} /\ WalkedToCompletion(f)

\* C7, amended: an identifier is appended to the ledger, and process_file
\* returns True, only after the whole file was walked: its text extracted,
\* every chunk passed to the generator, every record that was generated and
\* not lost to a caught write error appended; no record need exist.
C7_MarkedOnlyAfterWholeWalk ==
    \A f \in files :
        (f \in marked \/ result[f] = "True" \/ pc[f] \in {"m_wait", "m_open", "m_write"}) =>
            /\ WalkedToCompletion(f)
            /\ RecordsOf(f) = genOk[f] \ wfail[f]
            /\ (result[f] = "True" <=> f \in marked)

\* F1 is marked after its first chunk failed and its second was written
C7_Witness ==
    /\ "F1" \in marked /\ result["F1"] = "True"
    /\ genOk["F1"] = {2} /\ RecordsOf("F1") = {2}
    /\ attempted["F1"] = <<1, 2>>

(* ------------------------------- C8 ------------------------------------ *)

\* C8: weak marking: when the generator fails for every chunk of a file whose
\* text was extracted, process_file still appends the identifier to the
\* ledger and returns True (unless the append itself raises), and no record
\* of the file is written.
C8_WeakMarking ==
    \A f \in files :
        /\ genOk[f] = {} => RecordsOf(f) = {}
        /\ (/\ pc[f] = "done" /\ extracted[f] = 1 /\ Truthy(text[f])
            /\ genOk[f] = {} /\ result[f] # "raised") =>
               /\ attempted[f] = [j \in 1..Len(chunks[f]) |-> j]
               /\ result[f] = "True"
               /\ f \in marked
               /\ Contains(ledger, LineOf(f), led0)

\* the one chunk of F2 failed to generate, and F2 is in the ledger
C8_Witness ==
    /\ pc["F2"] = "done" /\ result["F2"] = "True"
    /\ Len(chunks["F2"]) = 1
    /\ attempted["F2"] = <<1>> /\ genOk["F2"] = {}
    /\ Contains(ledger, LineOf("F2"), led0)
    /\ RecordsOf("F2") = {}

(* ------------------------------- C9 ------------------------------------ *)

\* extract_text has returned None for f
ExtractedNone(f) == extracted[f] = 1 /\ text[f].null

C9_NoneIsSkipped ==
    \A f \in files :
        ExtractedNone(f) =>
            /\ pc[f] = "done" /\ result[f] = "False"
            /\ chunks[f] = <<>> /\ attempted[f] = <<>> /\ genOk[f] = {}
            /\ RecordsOf(f) = {}
            /\ f \notin marked
            /\ (mainpc = "harness" => output = <<>> /\ ledger = <<>>)

\* the step of process_file that gets None changes neither file, so what a
\* later run reads of f in the ledger is what it was
C9_NoneChangesNothing ==
    \A f \in files :
        (pc[f] = "extract" /\ pc'[f] = "done") =>
            /\ result'[f] = "False"
            /\ output' = output /\ ledger' = ledger /\ write_lock' = write_lock
            /\ Candidate(f, FALSE, LoadLedger(FALSE, ledger'))
                 = Candidate(f, FALSE, LoadLedger(FALSE, ledger))

\* C9: when extraction yields None (an unsupported extension, a read or parse
\* error) process_file returns False and changes nothing: no chunk is
\* generated, no record appended, the identifier not appended to the ledger,
\* so the file is as much a candidate for the next run as it was.
C9_ExtractionNone == []C9_NoneIsSkipped /\ [][C9_NoneChangesNothing]_vars

\* a run ended in which F1 could not be read while F2 was processed and marked
C9_Witness ==
    /\ mainpc = "returned" /\ ~force
    /\ ExtractedNone("F1") /\ result["F1"] = "False"
    /\ "F2" \in marked
    /\ Candidate("F1", FALSE, LoadLedger(FALSE, ledger))

(* ------------------------------- C10 ----------------------------------- *)

\* C10: process_file returns False only when the identifier is in the
\* snapshot or extraction returned None; for every other extraction result,
\* the text of zero chunks included, it attempts all chunks, appends the
\* identifier to the ledger and returns True.
C10_FalseOnlyForSnapshotOrNone ==
    \A f \in files :
        /\ (pc[f] = "done" /\ result[f] = "False") =>
              (Name(f) \in processed_files \/ ExtractedNone(f))
        /\ (pc[f] = "done" /\ extracted[f] = 1 /\ ~text[f].null /\ result[f] # "raised") =>
              /\ attempted[f] = [j \in 1..Len(chunks[f]) |-> j]
              /\ result[f] = "True"
              /\ f \in marked

\* the same for the texts that are not empty: this holds
C10_HoldsForNonEmptyText ==
    \A f \in files :
        /\ (pc[f] = "done" /\ result[f] = "False") =>
              \/ Name(f) \in processed_files
              \/ ExtractedNone(f)
              \/ (extracted[f] = 1 /\ text[f] = Text(0))
        /\ (pc[f] = "done" /\ extracted[f] = 1 /\ Truthy(text[f]) /\ result[f] # "raised") =>
              /\ attempted[f] = [j \in 1..Len(chunks[f]) |-> j]
              /\ result[f] = "True"
              /\ f \in marked


(* ------------------------------- C11 ----------------------------------- *)

\* the task of f has completed: it returned True, returned False, or raised
Completed(f) == pc[f] = "done" /\ result[f] \in {"True", "False", "raised"}

\* C11: main returns only after every submitted task has completed (returned
\* True, returned False, or raised an exception that the loop caught): in no
\* reachable state has main returned while a task is still pending or running.
C11_ReturnsAfterEveryTask ==
    mainpc = "returned" =>
        /\ \A f \in files : Completed(f) /\ f \in collected
        /\ Running = {}
        /\ \A f \in Paths : pc[f] # "queued"

\* main has returned from a run of two tasks, one that returned True and one
\* that raised
C11_Witness ==
    /\ mainpc = "returned"
    /\ Cardinality(files) >= 2
    /\ \E f, g \in files : result[f] = "True" /\ result[g] = "raised"


(* ------------------------------- C12 ----------------------------------- *)

\* the step is the raise of f's task
Raises(f) == result[f] # "raised" /\ result'[f] = "raised"

\* C12: an exception raised inside one file's task (the I/O error of the
\* ledger's open) is caught by the dispatcher, gives that file no progress
\* tick, and cancels or skips no other task: the raise leaves the lock free
\* and every other task where it was, the raised task is collected without a
\* tick, and every submitted file goes on to completion.
C12_FailureIsolation ==
    /\ [](\A f \in Paths : result[f] = "raised" =>
              pc[f] = "done" /\ write_lock # f /\ f \notin marked)
    /\ [][\A f \in Paths : Raises(f) =>
              /\ write_lock' = NoOne
              /\ files' = files
              /\ mainpc' = mainpc
              /\ \A g \in Paths \ {f} : pc'[g] = pc[g] /\ result'[g] = result[g]]_vars
    /\ [][\A f \in Paths : (result[f] = "raised" /\ f \in collected' \ collected) =>
              progress' = progress]_vars
    /\ \A f \in Paths :
          (result[f] = "raised") ~>
              (result[f] = "raised" /\ f \in collected /\ write_lock = NoOne
                 /\ \A g \in files : Completed(g))

\* one task has raised while another submitted task has not yet been taken by
\* a thread
C12_Witness ==
    \E f, g \in files :
        /\ f # g
        /\ result[f] = "raised"
        /\ pc[g] \in {"queued", "extract", "gen", "w_wait", "m_wait"}


(* ------------------------------- C13 ----------------------------------- *)

\* the submitted tasks that returned True
ReturnedTrue == {f \in files : pc[f] = "done" /\ result[f] = "True"}

\* C13: the progress count is incremented exactly once for each task whose
\* process_file returned True and never for one that returned False or
\* raised: it counts the collected tasks that returned True, each tick is the
\* collection of one such task, and the final count never exceeds the number
\* of submitted files and is lower whenever a file was skipped or failed.
C13_TicksOnlyOnTrue ==
    /\ [](progress = Cardinality(collected \cap ReturnedTrue))
    /\ [](progress <= Cardinality(files))
    /\ [](mainpc = "returned" =>
              /\ progress = Cardinality(ReturnedTrue)
              /\ (ReturnedTrue # files => progress < Cardinality(files)))
    /\ [][progress' # progress =>
              \/ (run' # run /\ progress' = 0)
              \/ /\ progress' = progress + 1
                 /\ \E f \in files \ collected :
                       collected' = collected \cup {f} /\ result[f] = "True"]_vars
    /\ [][\A f \in collected' \ collected :
              (run' = run /\ result[f] \in {"False", "raised"}) => progress' = progress]_vars

\* main has returned from a run of two tasks with one tick: one task
\* returned True and the other returned False
C13_Witness ==
    /\ mainpc = "returned"
    /\ Cardinality(files) = 2
    /\ progress = 1
    /\ \E f \in files : result[f] = "False"


(* ------------------------------- C14 ----------------------------------- *)

\* the task is inside the ledger's append, between its open and its close
InMark(f) == pc[f] \in {"m_open", "m_write"}

\* the tasks inside an open-append-close sequence on either file
InSequence == {f \in Paths : InWrite(f) \/ InMark(f)}

\* C14: in every reachable state at most one worker is inside an
\* open-append-close sequence on the output artifact or the ledger, every
\* such sequence runs while its worker holds write_lock, and every change of
\* either file is a step of the lock's holder.
C14_MutualExclusion ==
    /\ [](Cardinality(InSequence) <= 1)
    /\ [](\A f \in InSequence : write_lock = f)
    /\ [][(output' # output \/ ledger' # ledger) =>
              \E f \in InSequence : write_lock = f /\ pc'[f] # pc[f]]_vars

\* one worker is appending a record while another waits for the lock
C14_Witness ==
    \E f, g \in files :
        /\ f # g
        /\ pc[f] \in {"w_row", "w_nl"}
        /\ pc[g] \in {"w_wait", "m_wait"}


(* ------------------------------- C15 ----------------------------------- *)

\* how many times t occurs in s after its first n elements
Occurrences(s, t, n) ==
    Cardinality({i \in (n + 1)..(Len(s) - Len(t) + 1) :
                    SubSeq(s, i, i + Len(t) - 1) = t})

\* C15: within one run, with or without --force, each enumerated file is one
\* task: the tasks are the submitted files, a task that a thread has taken is
\* never queued again and a finished one never runs again, each file is
\* extracted at most once, and its identifier is appended to the ledger at
\* most once.
C15_AtMostOncePerRun ==
    /\ [](mainpc \in {"running", "returned"} =>
              \A f \in Paths : (f \in files <=> pc[f] # "none"))
    /\ [](\A f \in Paths : extracted[f] <= 1)
    /\ [](mainpc \in {"running", "returned"} =>
              \A f \in Directory :
                  /\ Occurrences(ledger, LineOf(f), led0) <= 1
                  /\ (Occurrences(ledger, LineOf(f), led0) = 1 <=> result[f] = "True"))
    /\ [][run' = run =>
              /\ files' = files
              /\ \A f \in Paths :
                    /\ (pc[f] # "queued" => pc'[f] # "queued")
                    /\ (pc[f] = "done" => pc'[f] = "done" /\ result'[f] = result[f])
                    /\ extracted'[f] >= extracted[f]]_vars

\* a second run, with --force, has returned: each of its two files, one of
\* them marked by the run before, was extracted once and marked once
C15_Witness ==
    /\ mainpc = "returned"
    /\ run = 2
    /\ force
    /\ Cardinality(files) = 2
    /\ prevMarked # {}
    /\ \A f \in files :
          extracted[f] = 1 /\ Occurrences(ledger, LineOf(f), led0) = 1


(* ------------------------------- C16 ----------------------------------- *)

\* the task of f is past the loop of line 115
PastLoop(f) ==
    \/ pc[f] \in {"m_wait", "m_open", "m_write"}
    \/ pc[f] = "done" /\ result[f] \in {"True", "raised"}

\* the step is a chunk of f ending without a record: the generator returned
\* None, or write_data caught an I/O error
ChunkFails(f) ==
    \/ Len(attempted'[f]) = Len(attempted[f]) + 1 /\ genOk'[f] = genOk[f]
    \/ wfail'[f] # wfail[f]

\* C16: within one file the chunks are passed to the generator one at a time
\* in sequence order (the model counts them from 1), each exactly once; a
\* generation failure or a failed write for a chunk sends the loop on to the
\* next chunk; once the loop is left every chunk was attempted; and the
\* file's records stand in the output artifact in chunk order.
C16_ChunksInOrder ==
    /\ [](\A f \in Paths :
              /\ Len(attempted[f]) <= Len(chunks[f])
              /\ attempted[f] = [j \in 1..Len(attempted[f]) |-> j]
              /\ (pc[f] = "gen" => idx[f] = Len(attempted[f]) + 1)
              /\ (PastLoop(f) => attempted[f] = [j \in 1..Len(chunks[f]) |-> j]))
    /\ [](\A j, k \in NewPositions :
              (/\ j < k
               /\ output[j].k \in {"row", "obj"}
               /\ output[k].k \in {"row", "obj"}
               /\ output[j].f = output[k].f) => output[j].i < output[k].i)
    /\ [][\A f \in Paths :
              (run' = run /\ ChunkFails(f) /\ idx[f] < Len(chunks[f])) =>
                  pc'[f] = "gen" /\ idx'[f] = idx[f] + 1]_vars

\* the write of a two-chunk file's first record failed, and its second
\* record was then generated and written
C16_Witness ==
    \E f \in files :
        /\ Len(chunks[f]) = 2
        /\ wfail[f] = {1}
        /\ RecordsOf(f) = {2}
        /\ PastLoop(f)


(* ------------------------------- C17 ----------------------------------- *)

\* C17: under fair scheduling of the threads, if every call of extract_text
\* and of generate_qa_data returns, then every submitted task eventually
\* completes and the run eventually returns; and if a call of
\* generate_qa_data never returns, the run never returns.
C17_Liveness ==
    /\ BackendReturns =>
          /\ (mainpc = "running") ~> (mainpc = "returned")
          /\ \A f \in Directory : (pc[f] = "queued") ~> Completed(f)
    /\ \A f \in Directory :
          [](pc[f] = "gen" => ([](pc[f] = "gen") => [](mainpc = "running")))

\* a task waits on the generator while the run's other task has completed
\* and was collected: main has nothing left to wait for but this call
C17_Witness ==
    \E f, g \in files :
        /\ f # g
        /\ pc[f] = "gen"
        /\ g \in collected
        /\ mainpc = "running"


(* ------------------------------- C18 ----------------------------------- *)

\* the task waits for the lock
Waiting(f) == pc[f] \in {"w_wait", "m_wait"}

\* C18: the write lock is never held by a worker that is extracting text or
\* waiting on the generator: its holder is always inside a critical section,
\* whose next step needs nothing; it is released on every path out of a
\* critical section, the caught write error and the uncaught error of the
\* ledger's open included; hence, even while calls of the backend never
\* return, a worker that waits for the lock gets it, and no state is a
\* deadlock on the lock.
C18_LockDiscipline ==
    /\ [](\A f \in Paths : pc[f] \in {"extract", "gen"} => write_lock # f)
    /\ [](write_lock # NoOne => write_lock \in InSequence)
    /\ [](\A f \in InSequence : ENABLED ThreadStep(f))
    /\ [][\A f \in InSequence : pc'[f] # pc[f] =>
              IF InWrite(f)' \/ InMark(f)' THEN write_lock' = f ELSE write_lock' = NoOne]_vars
    /\ [][\A f \in Paths : (run' = run /\ (wfail'[f] # wfail[f] \/ Raises(f))) =>
              write_lock = f /\ write_lock' = NoOne]_vars
    /\ \A f \in Directory : Waiting(f) ~> ~Waiting(f)

\* one worker writes its ledger line while another is inside a call of the
\* backend
C18_Witness ==
    \E f, g \in files :
        /\ pc[f] \in {"extract", "gen"}
        /\ pc[g] = "m_write"
        /\ write_lock = g


(* ------------------------------- C19 ----------------------------------- *)

\* the current run's part of the ledger holds the line of f
LinePresent(f) == Occurrences(ledger, LineOf(f), led0) >= 1

\* the positions a step adds to the output artifact that carry a piece of f
AddedFor(f) ==
    {j \in (Len(output) + 1)..Len(output') : output'[j].f = f}

\* C19: the ledger mark is the last write of a file: in every state where the
\* line of f appended by the current run is in the ledger, the task of f is
\* over, every chunk of f was attempted, and every record f contributes in
\* the run (each generated one whose write did not fail) is in the output
\* artifact; and no step of the run appends a record of f after that line.
C19_MarkIsLastWrite ==
    /\ [](\A f \in Directory :
              (mainpc \in {"running", "returned"} /\ LinePresent(f)) =>
                  /\ pc[f] = "done"
                  /\ attempted[f] = [j \in 1..Len(chunks[f]) |-> j]
                  /\ RecordsOf(f) = genOk[f] \ wfail[f]
                  /\ \A c \in RecordsOf(f) : CopiesOf(f, c) = 1)
    /\ [][\A f \in Directory :
              (run' = run /\ LinePresent(f)) =>
                  /\ AddedFor(f) = {}
                  /\ Occurrences(ledger', LineOf(f), led0) =
                        Occurrences(ledger, LineOf(f), led0)]_vars

\* the line of a two-chunk file is in the ledger, both its records in the
\* artifact, while the run's other task is still writing
C19_Witness ==
    \E f, g \in files :
        /\ LinePresent(f)
        /\ RecordsOf(f) = {1, 2}
        /\ pc[g] \in {"w_row", "w_nl"}


(* ------------------------------- C20 ----------------------------------- *)

\* C20, as claimed: process_file returns True if and only if that invocation
\* appended the file's identifier to the ledger; so when main has returned
\* the progress count equals the number of lines the ledger gained in the run.
C20_ProgressCountsLedgerLines ==
    /\ \A f \in files : Completed(f) => (result[f] = "True" <=> LinePresent(f))
    /\ mainpc = "returned" => progress = Len(NewLines)

\* what holds of the code: True is returned exactly by the invocations that
\* appended to the ledger, and when main has returned the progress count
\* equals the number of appends the run made; it equals the number of lines
\* gained when no marked name holds a line break.
C20_ProgressCountsAppends ==
    /\ \A f \in files : Completed(f) => (result[f] = "True" <=> LinePresent(f))
    /\ \A f \in files : LinePresent(f) <=> f \in marked
    /\ mainpc = "returned" =>
          /\ progress = Cardinality(marked)
          /\ ((\A f \in marked : Range(Name(f)) \cap LineBreaks = {}) =>
                progress = Len(NewLines))

====
